---- MODULE Spec2Model ----
(***************************************************************************)
(* FeeTracker (simulation/metrics.py): per-step fee observations, CAP      *)
(* event windows, the per-day rollup and the CAP event log written by      *)
(* finalize(), and the per-swap ledger with its annotated CAP registry.    *)
(* _run_phase3_simulation (simulation/orchestrator.py): the synthetic      *)
(* two-pool market that feeds the ledger and the registry.                 *)
(***************************************************************************)
EXTENDS Integers, Sequences, FiniteSets, TLC

\* ------------------------------------------------------------------
\* Bounds of the exploration
\* ------------------------------------------------------------------
\* number of log() calls explored when only log() and finalize() are called
MaxSteps == 6
\* number of log() calls explored when every FeeTracker method is called
MaxApiSteps == 3
\* _steps_per_day is drawn from 1..MaxStepsPerDay (the code's default is 288)
MaxStepsPerDay == 3
\* number of record_swap() calls explored
MaxSwaps == 2
\* number of record_cap_event() calls explored
MaxCapRecords == 2
\* length of the synthetic run when every perturbation sequence is explored
MaxSimSteps == 6
\* number of main() calls explored
MaxMainCalls == 3

\* (base_fee, surge_fee) pairs the fee source getFeeState() may return
FeeStates == {<<3, 0>>, <<4, 0>>, <<4, 5>>}
\* base_fee / applied_fee arguments of record_swap (applied below, at, above base)
SwapBaseFees == {2}
SwapAppliedFees == {1, 2, 3}
\* timestamp / details arguments of record_cap_event
Timestamps == {10}
NoDetails == <<>>
DetailsArgs == {NoDetails, [price_dynamic |-> 11, price_baseline |-> 11], [time |-> 99]}

\* Python's None for the int | None field _cap_event_start
None == -1

VARIABLES
    _dfm,               \* "contract" or "None": the bound fee source
    _steps_per_day,
    _last_in_cap,
    _step_counter,
    _swap_logs,         \* per-step rows {Step, InCAP, BaseFeePPM, SurgeFeePPM, TotalFeePPM}
    _cap_event_start,
    _cap_events,        \* closed windows <<start_step, end_step>>
    _finalized,
    base_fees,
    surge_fees,
    fees,
    cap_events,         \* annotated registry: one mapping per entry, "time" and the details
    stdout,             \* one entry per completed log(): [msg, marker]
    fee_metrics_file,   \* results/fee_and_cap_metrics.csv
    cap_file,           \* results/cap_event_log.csv
    csv_file,           \* destination of save_csv
    raised,             \* exception raised by the last call, or "none"
    pc,                 \* "idle" (no synthetic run), "loop" or "done"
    step,               \* loop index of _run_phase3_simulation
    steps,              \* length of the synthetic run
    stream,             \* the seeded random stream: the perturbation of each step
    baseline_price,
    dynamic_price,
    sim_base_fee,       \* the local base_fee of _run_phase3_simulation
    sim_trace,          \* branch taken by each step: "hold", "arb" or "cap"
    last_price_dynamic, \* tracker attributes attached after the loop
    last_price_baseline,
    ret,                \* value returned by the last snapshot() call, or NoReturn
    torn_down,          \* the tracker has been through __del__
    _phase3_simulation_done,
    fee_tracker,        \* module global: None or the tracker built by that run
    sim_runs,           \* number of times the body of _run_phase3_simulation was entered
    main_calls          \* number of main() calls made

windowVars == <<_last_in_cap, _step_counter, _swap_logs, _cap_event_start, _cap_events>>
ledgerVars == <<base_fees, surge_fees, fees, cap_events>>
fileVars == <<fee_metrics_file, cap_file>>
configVars == <<_dfm, _steps_per_day>>
simVars == <<pc, step, steps, stream, baseline_price, dynamic_price, sim_base_fee, sim_trace,
             last_price_dynamic, last_price_baseline>>
moduleVars == <<_phase3_simulation_done, fee_tracker, sim_runs, main_calls>>
callerVars == <<ret, torn_down, moduleVars>>
vars == <<configVars, windowVars, _finalized, ledgerVars, stdout, fileVars, csv_file, raised,
          simVars, callerVars>>

\* ------------------------------------------------------------------
\* Files
\* ------------------------------------------------------------------
Absent == [exists |-> FALSE, header |-> FALSE, rows |-> <<>>]
File(h, r) == [exists |-> TRUE, header |-> h, rows |-> r]

\* ------------------------------------------------------------------
\* Python helpers
\* ------------------------------------------------------------------
Min(a, b) == IF a <= b THEN a ELSE b
Max(a, b) == IF a >= b THEN a ELSE b

\* xs[start:end] for 0 <= start
Slice(xs, start, end) ==
    IF end <= start THEN <<>> ELSE SubSeq(xs, start + 1, Min(end, Len(xs)))

RECURSIVE SumField(_, _)
SumField(rows, f) ==
    IF rows = <<>> THEN 0 ELSE rows[1][f] + SumField(Tail(rows), f)

\* variant: a window is attributed to the day in which it ends
RECURSIVE CountEndsIn(_, _, _)
CountEndsIn(events, start, end) ==
    IF events = <<>> THEN 0
    ELSE (IF start <= events[1][2] /\ events[1][2] < end THEN 1 ELSE 0)
         + CountEndsIn(Tail(events), start, end)

\* sum(1 for s, _ in events if start <= s < end)
RECURSIVE CountStartsIn(_, _, _)
CountStartsIn(events, start, end) ==
    IF events = <<>> THEN 0
    ELSE (IF start <= events[1][1] /\ events[1][1] < end THEN 1 ELSE 0)
         + CountStartsIn(Tail(events), start, end)

\* ------------------------------------------------------------------
\* FeeTracker.__init__
\* ------------------------------------------------------------------
\* what a call that returns nothing leaves in ret
NoReturn == <<>>

\* the fields of a freshly constructed tracker, but for the two arguments
FreshFields ==
    /\ _last_in_cap = FALSE
    /\ _step_counter = 0
    /\ _swap_logs = <<>>
    /\ _cap_event_start = None
    /\ _cap_events = <<>>
    /\ _finalized = FALSE
    /\ base_fees = <<>>
    /\ surge_fees = <<>>
    /\ fees = <<>>
    /\ cap_events = <<>>
    /\ stdout = <<>>
    /\ raised = "none"
    /\ ret = NoReturn
    /\ torn_down = FALSE

\* a fresh tracker over a results directory that holds no artifact yet
FreshTracker ==
    /\ FreshFields
    /\ fee_metrics_file = Absent
    /\ cap_file = Absent
    /\ csv_file = Absent

\* the module globals of the orchestrator after import
ModuleLoaded ==
    /\ _phase3_simulation_done = FALSE
    /\ fee_tracker = None
    /\ sim_runs = 0
    /\ main_calls = 0

\* prices are held in units of 1/PriceOne, fees in thousandths of a percent
PriceOne == 99900
BaseFee0 == 300

\* a perturbation num/den and the stream that leaves every step open
NoMove == <<0, 1000>>
FreeStream == [kind |-> "free", bg |-> NoMove, at |-> 0, blip |-> NoMove]

\* the locals of _run_phase3_simulation before its loop
SimLocals ==
    /\ step = 0
    /\ baseline_price = PriceOne
    /\ dynamic_price = PriceOne
    /\ sim_base_fee = BaseFee0
    /\ sim_trace = <<>>
    /\ last_price_dynamic = None
    /\ last_price_baseline = None

\* a tracker driven directly, no synthetic run
Init ==
    /\ _dfm \in {"contract", "None"}
    /\ _steps_per_day \in 1..MaxStepsPerDay
    /\ FreshTracker
    /\ pc = "idle"
    /\ steps = 0
    /\ stream = FreeStream
    /\ SimLocals
    /\ ModuleLoaded

\* ------------------------------------------------------------------
\* FeeTracker.snapshot / FeeTracker.log
\* ------------------------------------------------------------------
\* variant: the total leaves the surge component out
snapshotBaseOnly(fs) == <<fs[1], fs[2], fs[1]>>

\* (base_fee, surge_fee, base_fee + surge_fee) for the sampled fee state
snapshot(fs) == <<fs[1], fs[2], fs[1] + fs[2]>>

\* variant: the edge is taken against the open window instead of _last_in_cap
MarkerFromWindow(in_cap, last_in_cap) ==
    IF in_cap /\ _cap_event_start = None THEN "START"
    ELSE IF ~in_cap /\ _cap_event_start # None THEN "END"
    ELSE "NONE"

\* the marker line printed by log(), if any
Marker(in_cap, last_in_cap) ==
    IF in_cap /\ ~last_in_cap THEN "START"
    ELSE IF ~in_cap /\ last_in_cap THEN "END"
    ELSE "NONE"

\* variant: the counter is not advanced on a step that is in CAP
StepAfterLogSkipCap(in_cap) == IF in_cap THEN _step_counter ELSE _step_counter + 1

\* self._step_counter += 1
StepAfterLog(in_cap) == _step_counter + 1

\* variant: the flag, once set, is never cleared
LastInCapSticky(in_cap) == in_cap \/ _last_in_cap

\* self._last_in_cap = in_cap
LastInCap(in_cap) == in_cap

log(fs) ==
    LET snap == snapshot(fs)
        base_fee == snap[1]
        surge_fee == snap[2]
        total_fee == snap[3]
        in_cap == surge_fee > 0
    IN  /\ stdout' = Append(stdout, [msg |-> snap, marker |-> Marker(in_cap, _last_in_cap)])
        /\ _swap_logs' = Append(_swap_logs,
                [Step |-> _step_counter,
                 InCAP |-> IF in_cap THEN 1 ELSE 0,
                 BaseFeePPM |-> base_fee,
                 SurgeFeePPM |-> surge_fee,
                 TotalFeePPM |-> total_fee])
        /\ IF in_cap /\ _cap_event_start = None
           THEN /\ _cap_event_start' = _step_counter
                /\ _cap_events' = _cap_events
           ELSE IF ~in_cap /\ _cap_event_start # None
           THEN /\ _cap_events' = Append(_cap_events, <<_cap_event_start, _step_counter>>)
                /\ _cap_event_start' = None
           ELSE UNCHANGED <<_cap_event_start, _cap_events>>
        /\ _last_in_cap' = LastInCap(in_cap)
        /\ _step_counter' = StepAfterLog(in_cap)
        /\ raised' = "none"
        /\ UNCHANGED <<simVars, callerVars, configVars, _finalized, ledgerVars, fileVars, csv_file>>

\* variant: the failure comes after the step has been counted and announced
logUnboundCounted ==
    /\ raised' = "AttributeError"
    /\ _step_counter' = _step_counter + 1
    /\ stdout' = Append(stdout, [msg |-> NoReturn, marker |-> "NONE"])
    /\ UNCHANGED <<simVars, callerVars, configVars, _last_in_cap, _swap_logs, _cap_event_start,
                   _cap_events, _finalized, ledgerVars, fileVars, csv_file>>

\* log() on a tracker without a fee source: snapshot() raises on self._dfm.functions
logUnbound ==
    /\ raised' = "AttributeError"
    /\ UNCHANGED <<simVars, callerVars, configVars, windowVars, _finalized, ledgerVars, stdout,
                   fileVars, csv_file>>

\* one log() call, for any fee state the source may be in
LogCall == IF _dfm = "None" THEN logUnbound ELSE \E fs \in FeeStates : log(fs)

Log == _step_counter < MaxSteps /\ LogCall

LogApi == _step_counter < MaxApiSteps /\ LogCall

\* variant: the components of the most recently recorded observation are returned
snapshotCallRecorded(fs) ==
    LET last == _swap_logs[Len(_swap_logs)]
    IN  /\ ret' = IF _swap_logs = <<>> THEN snapshot(fs)
                  ELSE <<last.BaseFeePPM, last.SurgeFeePPM, last.TotalFeePPM>>
        /\ raised' = "none"
        /\ UNCHANGED <<simVars, torn_down, moduleVars, configVars, windowVars, _finalized,
                       ledgerVars, stdout, fileVars, csv_file>>

\* snapshot() called by the owner of the tracker while the source is in state fs
snapshotCall(fs) ==
    /\ ret' = snapshot(fs)
    /\ raised' = "none"
    /\ UNCHANGED <<simVars, torn_down, moduleVars, configVars, windowVars, _finalized,
                   ledgerVars, stdout, fileVars, csv_file>>

\* variant: the call also fails while nothing has been recorded
SnapshotFailsUnrecorded == _dfm = "None" \/ _swap_logs = <<>>

\* self._dfm.functions raises when no contract is bound
SnapshotFails == _dfm = "None"

Snapshot ==
    IF SnapshotFails
    THEN /\ raised' = "AttributeError"
         /\ UNCHANGED <<simVars, callerVars, configVars, windowVars, _finalized, ledgerVars,
                        stdout, fileVars, csv_file>>
    ELSE \E fs \in FeeStates : snapshotCall(fs)

\* ------------------------------------------------------------------
\* FeeTracker._write_outputs / FeeTracker.finalize
\* ------------------------------------------------------------------
\* variant: floor division, a partial last day is dropped
NumDaysFloor(n, spd) ==
    LET q == n \div spd IN IF q = 0 THEN 1 ELSE q

\* (len + steps_per_day - 1) // steps_per_day or 1
NumDays(n, spd) ==
    LET q == (n + spd - 1) \div spd IN IF q = 0 THEN 1 ELSE q

\* variant: the day's base fee is taken from the first step of the day
DailyRowFirstBase(logs, events, spd, day) ==
    LET start == day * spd
        end == Min((day + 1) * spd, Len(logs))
        slice_logs == Slice(logs, start, end)
    IN  [Date |-> day + 1,
         BaseFeePPM |-> slice_logs[1].BaseFeePPM,
         CapEventCount |-> CountStartsIn(events, start, end),
         TotalBaseFeeCollected |-> SumField(slice_logs, "BaseFeePPM"),
         TotalSurgeFeeCollected |-> SumField(slice_logs, "SurgeFeePPM"),
         TotalFeeCollected |-> SumField(slice_logs, "TotalFeePPM")]

DailyRow(logs, events, spd, day) ==
    LET start == day * spd
        end == Min((day + 1) * spd, Len(logs))
        slice_logs == Slice(logs, start, end)
    IN  [Date |-> day + 1,
         BaseFeePPM |-> slice_logs[Len(slice_logs)].BaseFeePPM,
         CapEventCount |-> CountStartsIn(events, start, end),
         TotalBaseFeeCollected |-> SumField(slice_logs, "BaseFeePPM"),
         TotalSurgeFeeCollected |-> SumField(slice_logs, "SurgeFeePPM"),
         TotalFeeCollected |-> SumField(slice_logs, "TotalFeePPM")]

\* the rows of days 'day'..num_days-1, skipping days whose slice is empty
RECURSIVE DailyRowsFrom(_, _, _, _, _)
DailyRowsFrom(logs, events, spd, day, num_days) ==
    IF day >= num_days THEN <<>>
    ELSE LET rest == DailyRowsFrom(logs, events, spd, day + 1, num_days)
         IN  IF Slice(logs, day * spd, Min((day + 1) * spd, Len(logs))) = <<>>
             THEN rest
             ELSE <<DailyRow(logs, events, spd, day)>> \o rest

DailyRows(logs, events, spd) ==
    DailyRowsFrom(logs, events, spd, 0, NumDays(Len(logs), spd))

\* fee_and_cap_metrics.csv: header and rows only when there are rows
FeeMetricsFile(daily_rows) == File(daily_rows # <<>>, daily_rows)

\* variant: the duration counts the end step as well
CapRowInclusive(ev) == [StartStep |-> ev[1], EndStep |-> ev[2], DurationSteps |-> ev[2] - ev[1] + 1]

CapRow(ev) == [StartStep |-> ev[1], EndStep |-> ev[2], DurationSteps |-> ev[2] - ev[1]]

\* variant: the table is opened and its header written whatever the events
CapFileAlways(events, old) ==
    File(TRUE, [i \in 1..Len(events) |-> CapRow(events[i])])

\* cap_event_log.csv: written only when there are events
CapFile(events, old) ==
    IF events # <<>>
    THEN File(TRUE, [i \in 1..Len(events) |-> CapRow(events[i])])
    ELSE old

\* variant: the end of a forced close is one past the current step
ForcedEndNext == _step_counter + 1

\* the end_step finalize() gives a still-open window
ForcedEnd == _step_counter

\* variant: a still-open window is dropped
ClosedEventsDropOpen == _cap_events

\* the windows after finalize() closed a still-open one
ClosedEvents ==
    IF _cap_event_start # None
    THEN Append(_cap_events, <<_cap_event_start, ForcedEnd>>)
    ELSE _cap_events

\* variant: the outputs are written before the open window is closed
FlushedEventsBeforeClose == _cap_events

\* the windows _write_outputs() sees: it runs after the forced close
FlushedEvents == ClosedEvents

\* variant: no one-shot guard
FinalizeGuardAlways == TRUE

\* if not self._finalized
FinalizeGuard == ~_finalized

finalize ==
    IF FinalizeGuard
    THEN /\ _cap_events' = ClosedEvents
         /\ _cap_event_start' = None
         /\ fee_metrics_file' = FeeMetricsFile(DailyRows(_swap_logs, FlushedEvents, _steps_per_day))
         /\ cap_file' = CapFile(FlushedEvents, cap_file)
         /\ _finalized' = TRUE
         /\ raised' = "none"
         /\ UNCHANGED <<simVars, ret, moduleVars, configVars, _last_in_cap, _step_counter,
                        _swap_logs, ledgerVars, stdout, csv_file>>
    ELSE /\ raised' = "none"
         /\ UNCHANGED <<simVars, ret, moduleVars, configVars, windowVars, _finalized, ledgerVars,
                        stdout, fileVars, csv_file>>

\* finalize() called by the owner of the tracker
Finalize == finalize /\ UNCHANGED torn_down

\* the open() calls of _write_outputs() that may fail
WritePoints == {"rollup", "cap_log"}

\* finalize() cut short by a failing open(): the forced close has happened, the
\* artifacts before the failing one are written, _finalized is not set
WriteFailure(where) ==
    /\ FinalizeGuard
    /\ _cap_events' = ClosedEvents
    /\ _cap_event_start' = None
    /\ IF where = "rollup"
       THEN UNCHANGED fileVars
       ELSE /\ FlushedEvents # <<>>
            /\ fee_metrics_file' =
                   FeeMetricsFile(DailyRows(_swap_logs, FlushedEvents, _steps_per_day))
            /\ cap_file' = cap_file
    /\ UNCHANGED <<simVars, ret, moduleVars, configVars, _last_in_cap, _step_counter, _swap_logs,
                   _finalized, ledgerVars, stdout, csv_file>>

\* an explicit finalize() over a sink that may fail: the error reaches the caller
FinalizeIO ==
    /\ \/ finalize
       \/ \E where \in WritePoints : WriteFailure(where) /\ raised' = "OSError"
    /\ UNCHANGED torn_down

\* variant: the error of the attempted finalize() reaches the collector
DelRaisedPropagates(err) == err

\* except Exception: pass
DelRaised(err) == "none"

\* __del__: a best-effort finalize() as the tracker is reclaimed
Del ==
    /\ \/ finalize
       \/ \E where \in WritePoints : WriteFailure(where) /\ raised' = DelRaised("OSError")
    /\ torn_down' = TRUE

\* the history and windows of an earlier tracker that ran over the same
\* results directory: one step in CAP, then one step out of it
EarlierLogs ==
    <<[Step |-> 0, InCAP |-> 1, BaseFeePPM |-> 4, SurgeFeePPM |-> 5, TotalFeePPM |-> 9],
      [Step |-> 1, InCAP |-> 0, BaseFeePPM |-> 3, SurgeFeePPM |-> 0, TotalFeePPM |-> 3]>>
EarlierEvents == <<<<0, 1>>>>

\* a tracker constructed over the artifacts the earlier tracker's finalize() left
InitStale ==
    /\ _dfm = "contract"
    /\ _steps_per_day \in 1..MaxStepsPerDay
    /\ FreshFields
    /\ fee_metrics_file = FeeMetricsFile(DailyRows(EarlierLogs, EarlierEvents, _steps_per_day))
    /\ cap_file = CapFile(EarlierEvents, Absent)
    /\ csv_file = Absent
    /\ pc = "idle"
    /\ steps = 0
    /\ stream = FreeStream
    /\ SimLocals
    /\ ModuleLoaded

\* ------------------------------------------------------------------
\* FeeTracker.record_swap / record_cap_event / save_csv
\* ------------------------------------------------------------------
\* variant: the difference is recorded as it is
SurgeOfUnclamped(fee, applied_fee) == applied_fee - fee

\* surge_fee = max(applied_fee - base_fee, 0.0)
SurgeOf(fee, applied_fee) == Max(applied_fee - fee, 0)

\* variant: the swap is also entered in the per-step history and counted as a step
record_swapLogged(base_fee, applied_fee) ==
    LET surge_fee == SurgeOf(base_fee, applied_fee)
    IN  /\ base_fees' = Append(base_fees, base_fee)
        /\ surge_fees' = Append(surge_fees, surge_fee)
        /\ fees' = Append(fees, applied_fee)
        /\ _swap_logs' = Append(_swap_logs,
                [Step |-> _step_counter,
                 InCAP |-> IF surge_fee > 0 THEN 1 ELSE 0,
                 BaseFeePPM |-> base_fee,
                 SurgeFeePPM |-> surge_fee,
                 TotalFeePPM |-> applied_fee])
        /\ _step_counter' = _step_counter + 1
        /\ raised' = "none"
        /\ UNCHANGED <<simVars, callerVars, configVars, _last_in_cap, _cap_event_start,
                       _cap_events, _finalized, cap_events, stdout, fileVars, csv_file>>

record_swap(base_fee, applied_fee) ==
    LET surge_fee == SurgeOf(base_fee, applied_fee)
    IN  /\ base_fees' = Append(base_fees, base_fee)
        /\ surge_fees' = Append(surge_fees, surge_fee)
        /\ fees' = Append(fees, applied_fee)
        /\ raised' = "none"
        /\ UNCHANGED <<simVars, callerVars, configVars, windowVars, _finalized, cap_events, stdout, fileVars,
                       csv_file>>

RecordSwap ==
    /\ Len(fees) < MaxSwaps
    /\ \E b \in SwapBaseFees, a \in SwapAppliedFees : record_swap(b, a)

\* variant: the timestamp is written last, over the details
PayloadTimeLast(timestamp, details) ==
    [k \in DOMAIN details \cup {"time"} |-> IF k = "time" THEN timestamp ELSE details[k]]

\* payload = {"time": timestamp}; if details: payload.update(details)
Payload(timestamp, details) ==
    [k \in {"time"} \cup DOMAIN details |-> IF k \in DOMAIN details THEN details[k] ELSE timestamp]

record_cap_event(timestamp, details) ==
    /\ cap_events' = Append(cap_events, Payload(timestamp, details))
    /\ raised' = "none"
    /\ UNCHANGED <<simVars, callerVars, configVars, windowVars, _finalized, base_fees, surge_fees, fees, stdout,
                   fileVars, csv_file>>

RecordCapEvent ==
    /\ Len(cap_events) < MaxCapRecords
    /\ \E t \in Timestamps, d \in DetailsArgs : record_cap_event(t, d)

\* variant: the index column counts from one
LedgerRowsFromOne ==
    LET n == Min(Len(base_fees), Min(Len(surge_fees), Len(fees)))
    IN  [i \in 1..n |-> [swap_index |-> i, base_fee |-> base_fees[i],
                         surge_fee |-> surge_fees[i], total_fee |-> fees[i]]]

\* enumerate(zip(...)): zip() stops at the shortest of the three lists
LedgerRows ==
    LET n == Min(Len(base_fees), Min(Len(surge_fees), Len(fees)))
    IN  [i \in 1..n |-> [swap_index |-> i - 1, base_fee |-> base_fees[i],
                         surge_fee |-> surge_fees[i], total_fee |-> fees[i]]]

save_csv ==
    /\ csv_file' = File(TRUE, LedgerRows)
    /\ raised' = "none"
    /\ UNCHANGED <<simVars, callerVars, configVars, windowVars, _finalized, ledgerVars, stdout, fileVars>>

SaveCsv == save_csv

\* ------------------------------------------------------------------
\* _run_phase3_simulation
\* ------------------------------------------------------------------
FullSteps == 864
DefaultStepsPerDay == 288
MinBaseFee == 100
MaxBaseFee == 5000
FeeIncrement == 20
FeeDecrement == 5
\* thresholds on the relative price difference, in thousandths
ArbitrageThreshold == 1
CapThreshold == 5
StepMinutes == 5

\* perturbations num/den that random.uniform(-0.002, 0.002) may return
Deltas == {<<-2, 1000>>, <<-1, 1000>>, NoMove, <<1, 999>>, <<2, 1000>>}

\* streams of the full-length run: one perturbation on every step but one
BlipSteps == {0, (FullSteps \div 2) + 1, FullSteps - 1}
BlipStreams ==
    {[kind |-> "blip", bg |-> g, at |-> a, blip |-> d] :
        g \in Deltas, a \in BlipSteps, d \in Deltas}

\* the values the stream may hold for step k
DeltaAt(k) ==
    IF stream.kind = "free" THEN Deltas
    ELSE {IF k = stream.at THEN stream.blip ELSE stream.bg}

Abs(x) == IF x < 0 THEN -x ELSE x

\* variant: the perturbation range is three times as wide
PerturbTripled(price, delta) == (price * (delta[2] + 3 * delta[1])) \div delta[2]

\* baseline_price *= 1 + delta
Perturb(price, delta) == (price * (delta[2] + delta[1])) \div delta[2]

\* variant: the scripted shock is left out
ShockNone(price) == price

\* baseline_price *= 1.10
Shock(price) == (price * 110) \div 100

\* abs(baseline - dynamic) / baseline > threshold
Exceeds(baseline, dynamic, threshold) == Abs(baseline - dynamic) * 1000 > threshold * baseline

\* variant: the decay is not held at min_base_fee
NextBaseFeeNoFloor(fee, arb, cap) ==
    IF cap THEN Min(fee + FeeIncrement, MaxBaseFee)
    ELSE IF arb THEN fee - FeeDecrement
    ELSE fee

\* variant: the escalation runs on every step
NextBaseFeeAlwaysUp(fee, arb, cap) ==
    IF arb /\ ~cap THEN Min(Max(fee - FeeDecrement, MinBaseFee) + FeeIncrement, MaxBaseFee)
    ELSE Min(fee + FeeIncrement, MaxBaseFee)

\* base_fee after the step: escalated on a CAP, decayed on any other arbitrage
NextBaseFee(fee, arb, cap) ==
    IF cap THEN Min(fee + FeeIncrement, MaxBaseFee)
    ELSE IF arb THEN Max(fee - FeeDecrement, MinBaseFee)
    ELSE fee

\* variant: arbitrage closes only half of the gap
PostArbitrageHalfway(baseline, dynamic) == (baseline + dynamic) \div 2

\* dynamic_price = baseline_price
PostArbitrage(baseline, dynamic) == baseline

\* variant: the event is stamped with the end of the interval
CapTimeNext(k) == (k + 1) * StepMinutes

\* step * 5
CapTime(k) == k * StepMinutes

\* variant: outside a CAP the surge fee of the previous step is carried over
StepSurgeFeeHeld(fee, cap_triggered, previous) ==
    IF cap_triggered THEN fee * 2 ELSE previous

\* variant: the surge is taken from the base fee after its escalation
StepSurgeFeeEscalated(fee, cap_triggered, previous) ==
    IF cap_triggered THEN Min(fee + FeeIncrement, MaxBaseFee) * 2 ELSE 0

\* surge_fee = 0.0 on every iteration, base_fee * 2 when the CAP triggers
StepSurgeFee(fee, cap_triggered, previous) ==
    IF cap_triggered THEN fee * 2 ELSE 0

\* one iteration of the loop
SimStep ==
    /\ pc = "loop"
    /\ step < steps
    /\ \E delta \in DeltaAt(step) :
        LET moved == Perturb(baseline_price, delta)
            baseline == IF step = steps \div 2 THEN Shock(moved) ELSE moved
            arb == Exceeds(baseline, dynamic_price, ArbitrageThreshold)
            cap_triggered == arb /\ Exceeds(baseline, dynamic_price, CapThreshold)
            previous == IF surge_fees = <<>> THEN 0 ELSE surge_fees[Len(surge_fees)]
            surge_fee == StepSurgeFee(sim_base_fee, cap_triggered, previous)
            fee == NextBaseFee(sim_base_fee, arb, cap_triggered)
            dynamic == IF arb THEN PostArbitrage(baseline, dynamic_price) ELSE dynamic_price
            applied_fee == fee + surge_fee
        IN  /\ baseline_price' = baseline
            /\ dynamic_price' = dynamic
            /\ sim_base_fee' = fee
            /\ base_fees' = Append(base_fees, fee)
            /\ surge_fees' = Append(surge_fees, SurgeOf(fee, applied_fee))
            /\ fees' = Append(fees, applied_fee)
            /\ cap_events' =
                 IF cap_triggered
                 THEN Append(cap_events,
                             Payload(CapTime(step), [price_dynamic |-> dynamic,
                                                     price_baseline |-> baseline]))
                 ELSE cap_events
            /\ sim_trace' = Append(sim_trace,
                                   IF cap_triggered THEN "cap" ELSE IF arb THEN "arb" ELSE "hold")
    /\ step' = step + 1
    /\ raised' = "none"
    /\ UNCHANGED <<pc, steps, stream, last_price_dynamic, last_price_baseline, callerVars,
                   configVars, windowVars, _finalized, stdout, fileVars, csv_file>>

\* after the loop: the final prices are attached and the ledger is exported
SimFinish ==
    /\ pc = "loop"
    /\ step = steps
    /\ last_price_dynamic' = dynamic_price
    /\ last_price_baseline' = baseline_price
    /\ csv_file' = File(TRUE, LedgerRows)
    /\ pc' = "done"
    /\ raised' = "none"
    /\ UNCHANGED <<step, steps, stream, baseline_price, dynamic_price, sim_base_fee, sim_trace,
                   callerVars, configVars, windowVars, _finalized, ledgerVars, stdout, fileVars>>

\* the tracker the run constructs, and the locals before the loop
SimStart ==
    /\ _dfm = "None"
    /\ _steps_per_day = DefaultStepsPerDay
    /\ FreshTracker
    /\ pc = "loop"
    /\ SimLocals
    /\ ModuleLoaded

\* _run_phase3_simulation is entered: a new tracker, the locals before the loop
NewRun ==
    /\ _dfm' = "None"
    /\ _steps_per_day' = DefaultStepsPerDay
    /\ _last_in_cap' = FALSE
    /\ _step_counter' = 0
    /\ _swap_logs' = <<>>
    /\ _cap_event_start' = None
    /\ _cap_events' = <<>>
    /\ _finalized' = FALSE
    /\ base_fees' = <<>>
    /\ surge_fees' = <<>>
    /\ fees' = <<>>
    /\ cap_events' = <<>>
    /\ torn_down' = FALSE
    /\ step' = 0
    /\ baseline_price' = PriceOne
    /\ dynamic_price' = PriceOne
    /\ sim_base_fee' = BaseFee0
    /\ sim_trace' = <<>>
    /\ last_price_dynamic' = None
    /\ last_price_baseline' = None
    /\ pc' = "loop"
    /\ sim_runs' = sim_runs + 1
    /\ UNCHANGED <<steps, stream, stdout, fileVars, csv_file, ret>>

\* variant: no guard, every call runs the simulation
MainGuardNever == FALSE

\* if _phase3_simulation_done: return
MainGuard == _phase3_simulation_done

\* main() is called: it returns at once behind the guard, or enters the run
MainCall ==
    /\ pc = "idle"
    /\ main_calls < MaxMainCalls
    /\ main_calls' = main_calls + 1
    /\ raised' = "none"
    /\ IF MainGuard
       THEN UNCHANGED <<configVars, windowVars, _finalized, ledgerVars, stdout, fileVars,
                        csv_file, simVars, ret, torn_down, _phase3_simulation_done,
                        fee_tracker, sim_runs>>
       ELSE NewRun /\ UNCHANGED <<_phase3_simulation_done, fee_tracker>>

\* the run has returned its tracker: main() binds it and sets the guard
MainReturn ==
    /\ pc = "done"
    /\ fee_tracker' = sim_runs
    /\ _phase3_simulation_done' = TRUE
    /\ pc' = "idle"
    /\ raised' = "none"
    /\ UNCHANGED <<configVars, windowVars, _finalized, ledgerVars, stdout, fileVars, csv_file,
                   step, steps, stream, baseline_price, dynamic_price, sim_base_fee, sim_trace,
                   last_price_dynamic, last_price_baseline, ret, torn_down, sim_runs,
                   main_calls>>

\* the orchestrator module after import, before any main() call
InitMain ==
    /\ _dfm = "None"
    /\ _steps_per_day = DefaultStepsPerDay
    /\ FreshTracker
    /\ pc = "idle"
    /\ SimLocals
    /\ ModuleLoaded
    /\ steps = MaxSimSteps
    /\ stream = FreeStream

\* a short run under every perturbation sequence
InitSim == SimStart /\ steps = MaxSimSteps /\ stream = FreeStream

\* the full-length run under the streams of BlipStreams
InitSimFull == SimStart /\ steps = FullSteps /\ stream \in BlipStreams

\* ------------------------------------------------------------------
\* Specifications
\* ------------------------------------------------------------------
\* a run of log() calls with finalize() called at any point
Next == Log \/ Finalize

Spec == Init /\ [][Next]_vars

\* every FeeTracker method, in any order
NextApi == LogApi \/ Finalize \/ RecordSwap \/ RecordCapEvent \/ SaveCsv

SpecApi == Init /\ [][NextApi]_vars

\* log() and finalize() over a results directory an earlier tracker wrote to
SpecStale == InitStale /\ [][Next]_vars

\* log(), finalize() and the teardown of the tracker over a sink that may fail
NextTeardown == ~torn_down /\ (LogApi \/ FinalizeIO \/ Del)

SpecTeardown == Init /\ [][NextTeardown]_vars

\* log() calls with snapshot() called at any point
NextSnap == LogApi \/ Snapshot

SpecSnap == Init /\ [][NextSnap]_vars

\* the synthetic run
NextSim == SimStep \/ SimFinish

SpecSim == InitSim /\ [][NextSim]_vars

SpecSimFull == InitSimFull /\ [][NextSim]_vars

\* main() called again and again on one module instance
NextMain == MainCall \/ SimStep \/ SimFinish \/ MainReturn

SpecMain == InitMain /\ [][NextMain]_vars

\* ------------------------------------------------------------------
\* Vocabulary of the properties
\* ------------------------------------------------------------------
\* the sampled surge fees, in step order
Surges == [i \in 1..Len(_swap_logs) |-> _swap_logs[i].SurgeFeePPM]

\* surge fee of step k (0-based) in the history 'sg'
SurgeAt(sg, k) == sg[k + 1]

\* the maximal contiguous runs of steps with surge_fee > 0, as (first, first after)
MaximalRuns(sg) ==
    {<<a, b>> \in (0..Len(sg)) \X (0..Len(sg)) :
        /\ a < b
        /\ \A k \in a..(b - 1) : SurgeAt(sg, k) > 0
        /\ (a = 0 \/ SurgeAt(sg, a - 1) = 0)
        /\ (b = Len(sg) \/ SurgeAt(sg, b) = 0)}

\* 'evs' lists exactly the members of 'runs', by increasing start
ListsRuns(evs, runs) ==
    /\ {evs[i] : i \in 1..Len(evs)} = runs
    /\ Len(evs) = Cardinality(runs)
    /\ \A i, j \in 1..Len(evs) : i < j => evs[i][1] < evs[j][1]

\* the first finalize() of a tracker
FirstFinalize == ~_finalized /\ Finalize

Ceil(n, d) == IF n % d = 0 THEN n \div d ELSE (n \div d) + 1

\* ------------------------------------------------------------------
\* C1: after log()* followed by finalize(), the windowed CapEvent list is
\* exactly the list of maximal runs of steps with surge_fee > 0, each as
\* (first step, first step after the run); [0,0,5,5,0,0] gives (2,4).
\* ------------------------------------------------------------------
C1_EventsAreMaximalRuns ==
    [][FirstFinalize => ListsRuns(_cap_events', MaximalRuns(Surges'))]_vars

C1_Witness ==
    /\ _finalized
    /\ Surges = <<0, 0, 5, 5, 0, 0>>
    /\ _cap_events = <<<<2, 4>>>>
    /\ _steps_per_day = 1
    /\ Len(fee_metrics_file.rows) = 6

\* ------------------------------------------------------------------
\* C2: log() prints START at step s iff surge > 0 at s and (s = 0 or
\* surge = 0 at s-1), END iff surge = 0 at s and surge > 0 at s-1, and no
\* marker on any other step.
\* ------------------------------------------------------------------
C2_MarkersAreEdges ==
    /\ Len(stdout) = Len(_swap_logs)
    /\ \A i \in 1..Len(stdout) :
        LET cur == Surges[i]
            prev == IF i = 1 THEN 0 ELSE Surges[i - 1]
        IN  /\ stdout[i].marker \in {"START", "END", "NONE"}
            /\ (stdout[i].marker = "START") <=> (cur > 0 /\ prev = 0)
            /\ (stdout[i].marker = "END") <=> (cur = 0 /\ prev > 0)

C2_Witness ==
    /\ Len(stdout) = 6
    /\ [i \in 1..6 |-> stdout[i].marker] = <<"NONE", "NONE", "START", "NONE", "END", "NONE">>

\* ------------------------------------------------------------------
\* C3: once finalize() has completed, a further finalize() changes neither
\* the tracker nor the two artifacts and does not raise.
\* ------------------------------------------------------------------
C3_FinalizeIdempotent ==
    [][(_finalized /\ Finalize) =>
            /\ UNCHANGED <<configVars, windowVars, _finalized, ledgerVars, stdout,
                           fileVars, csv_file>>
            /\ raised' = "none"]_vars

\* finalized, with a window opened and steps logged since: a state in which an
\* unguarded finalize() would rewrite both artifacts
C3_Witness ==
    /\ _finalized
    /\ cap_file.exists
    /\ _cap_event_start # None
    /\ Len(_swap_logs) > Len(fee_metrics_file.rows) * _steps_per_day

\* ------------------------------------------------------------------
\* C4: a CapEvent open at the first finalize() is closed as (start_step, N),
\* N the number of steps logged, none stays open, and the closed event is in
\* the CAP-event table and in the day-rollup CapEventCount of that call; with
\* none open, finalize() adds no CapEvent.
\* ------------------------------------------------------------------
C4_ForcedClose ==
    [][FirstFinalize =>
        LET N == Len(_swap_logs)
            start == _cap_event_start
            d == start \div _steps_per_day
            lo == d * _steps_per_day
            hi == Min((d + 1) * _steps_per_day, N)
        IN  /\ _cap_event_start' = None
            /\ IF start # None
               THEN /\ _cap_events' = Append(_cap_events, <<start, N>>)
                    /\ cap_file'.exists
                    /\ Len(cap_file'.rows) = Len(_cap_events')
                    /\ cap_file'.rows[Len(cap_file'.rows)]
                         = [StartStep |-> start, EndStep |-> N, DurationSteps |-> N - start]
                    /\ Len(fee_metrics_file'.rows) > d
                    /\ fee_metrics_file'.rows[d + 1].CapEventCount
                         = Cardinality({i \in 1..Len(_cap_events') :
                                          lo <= _cap_events'[i][1] /\ _cap_events'[i][1] < hi})
                    /\ fee_metrics_file'.rows[d + 1].CapEventCount >= 1
               ELSE _cap_events' = _cap_events]_vars

\* finalized right after a step in CAP: the last window ends at the step count
C4_Witness ==
    /\ _finalized
    /\ _cap_events # <<>>
    /\ Len(_swap_logs) >= 3
    /\ Surges[Len(_swap_logs)] > 0
    /\ _cap_events[Len(_cap_events)][2] = Len(_swap_logs)
    /\ cap_file.rows[Len(cap_file.rows)].EndStep = Len(_swap_logs)

\* ------------------------------------------------------------------
\* C5: once finalize() has completed, every later log(), record_swap() or
\* record_cap_event() is rejected or leaves the history, the step counter,
\* the open and closed windows, the ledger and the registry unchanged.
\* ------------------------------------------------------------------
C5_NoMutationAfterFinalize ==
    [][_finalized =>
        UNCHANGED <<_swap_logs, _step_counter, _cap_event_start, _cap_events,
                    base_fees, surge_fees, fees, cap_events>>]_vars

\* ------------------------------------------------------------------
\* C6: every observation recorded by log() has a stored total fee equal to
\* its stored base fee plus its stored surge fee.
\* ------------------------------------------------------------------
C6_TotalIsBasePlusSurge ==
    \A i \in 1..Len(_swap_logs) :
        _swap_logs[i].TotalFeePPM = _swap_logs[i].BaseFeePPM + _swap_logs[i].SurgeFeePPM

C6_Witness ==
    \E i \in 1..Len(_swap_logs) :
        /\ _swap_logs[i].SurgeFeePPM = 5
        /\ _swap_logs[i].BaseFeePPM = 4
        /\ _swap_logs[i].TotalFeePPM = 9

\* ------------------------------------------------------------------
\* C7: every ledger entry appended by record_swap(), also with
\* applied_fee < base_fee, has total_fee = base_fee + surge_fee, and so has
\* every row of the swap ledger export.
\* ------------------------------------------------------------------
C7_LedgerTotalIsSum ==
    /\ \A i \in 1..Len(fees) : fees[i] = base_fees[i] + surge_fees[i]
    /\ \A i \in 1..Len(csv_file.rows) :
            csv_file.rows[i].total_fee = csv_file.rows[i].base_fee + csv_file.rows[i].surge_fee

\* ------------------------------------------------------------------
\* C8: the step counter equals the number of observations, the i-th
\* observation carries Step = i (from 0), each successful log() advances the
\* counter by exactly 1 and no other operation changes it.
\* ------------------------------------------------------------------
C8_StepsAreConsecutive ==
    /\ [](/\ _step_counter = Len(_swap_logs)
          /\ \A i \in 1..Len(_swap_logs) : _swap_logs[i].Step = i - 1)
    /\ [][/\ (LogCall /\ raised' = "none") => _step_counter' = _step_counter + 1
          /\ (_step_counter' # _step_counter) => LogCall]_vars

\* three steps logged, in and out of CAP, around a finalize() and ledger calls
C8_Witness ==
    /\ _step_counter = 3
    /\ [i \in 1..Len(_swap_logs) |-> _swap_logs[i].Step] = <<0, 1, 2>>
    /\ Surges = <<5, 0, 5>>
    /\ _finalized
    /\ fee_metrics_file.rows # <<>>
    /\ Len(fees) = 1
    /\ Len(cap_events) = 1
    /\ csv_file.exists

\* ------------------------------------------------------------------
\* C9: under any interleaving of log() and finalize(), the durations
\* (end_step - start_step) of the recorded windows sum to at most the number
\* of steps observed, and at most one CapEvent is open.
\* ------------------------------------------------------------------
RECURSIVE SumDurations(_)
SumDurations(evs) ==
    IF evs = <<>> THEN 0 ELSE (evs[1][2] - evs[1][1]) + SumDurations(Tail(evs))

\* the open windows: those begun and not recorded as closed
OpenStarts ==
    {k \in 0..(_step_counter - 1) :
        /\ k = _cap_event_start
        /\ \A i \in 1..Len(_cap_events) : _cap_events[i][1] # k}

C9_DurationsBounded ==
    /\ SumDurations(_cap_events) <= _step_counter
    /\ _cap_event_start \in {None} \cup (0..(_step_counter - 1))
    /\ Cardinality(OpenStarts) <= 1
    /\ (_cap_event_start # None) => Cardinality(OpenStarts) = 1

\* two windows, one of them closed by finalize(), and a third one open
C9_Witness ==
    /\ _finalized
    /\ Len(_cap_events) = 2
    /\ SumDurations(_cap_events) = 4
    /\ _step_counter = 6
    /\ _cap_event_start = 5

\* ------------------------------------------------------------------
\* C10: the day-rollup written by finalize() has ceil(N / steps_per_day)
\* rows, N the number of logged steps: none for N = 0, at least one for
\* N >= 1, the last window possibly partial.
\* ------------------------------------------------------------------
C10_RollupRowCount ==
    [][FirstFinalize =>
        LET N == Len(_swap_logs)
            rows == fee_metrics_file'.rows
        IN  /\ fee_metrics_file'.exists
            /\ Len(rows) = Ceil(N, _steps_per_day)
            /\ (N = 0) => rows = <<>>
            /\ (N >= 1) => Len(rows) >= 1]_vars

\* five steps in days of two: three rows, the last one for a single step
C10_Witness ==
    /\ _finalized
    /\ _steps_per_day = 2
    /\ Len(_swap_logs) = 5
    /\ Len(fee_metrics_file.rows) = 3
    /\ fee_metrics_file.rows[3].TotalFeeCollected = _swap_logs[5].TotalFeePPM

\* ------------------------------------------------------------------
\* C11: in each day-rollup row, CapEventCount is the number of windows
\* whose start_step lies in [d*steps_per_day, min((d+1)*steps_per_day, N));
\* every window is counted in exactly one row and the counts sum to the
\* number of windows.
\* ------------------------------------------------------------------
\* the step range [lo, hi) of day d among n steps
DayLo(d) == d * _steps_per_day
DayHi(d, n) == Min((d + 1) * _steps_per_day, n)

C11_CapEventCountPerDay ==
    [][FirstFinalize =>
        LET N == Len(_swap_logs)
            rows == fee_metrics_file'.rows
            evs == _cap_events'
            StartsIn(d) == {i \in 1..Len(evs) :
                              DayLo(d) <= evs[i][1] /\ evs[i][1] < DayHi(d, N)}
        IN  /\ \A r \in 1..Len(rows) : rows[r].CapEventCount = Cardinality(StartsIn(r - 1))
            /\ \A i \in 1..Len(evs) :
                  Cardinality({r \in 1..Len(rows) : i \in StartsIn(r - 1)}) = 1
            /\ SumField(rows, "CapEventCount") = Len(evs)]_vars

\* days of two steps: one window across the first day boundary, one closed
\* by finalize() in the partial last day
C11_Witness ==
    /\ _finalized
    /\ _steps_per_day = 2
    /\ Len(_swap_logs) = 5
    /\ _cap_events = <<<<1, 3>>, <<4, 5>>>>
    /\ [r \in 1..Len(fee_metrics_file.rows) |-> fee_metrics_file.rows[r].CapEventCount]
         = <<1, 0, 1>>

\* ------------------------------------------------------------------
\* C12: finalize() always writes the day-rollup, also with no history and
\* without raising; it writes the CAP-event table iff there is at least one
\* window (counting one it closed itself), and with none it writes neither
\* header nor rows.
\* ------------------------------------------------------------------
C12_ArtifactExistence ==
    [][FirstFinalize =>
        /\ raised' = "none"
        /\ fee_metrics_file'.exists
        /\ IF _cap_events' # <<>>
           THEN /\ cap_file'.exists
                /\ cap_file'.header
                /\ cap_file'.rows # <<>>
           ELSE /\ cap_file' = cap_file
                /\ ~cap_file'.exists
                /\ ~cap_file'.header
                /\ cap_file'.rows = <<>>]_vars

\* finalized with no history: an empty rollup file and no CAP-event table
C12_Witness ==
    /\ _finalized
    /\ _swap_logs = <<>>
    /\ fee_metrics_file = File(FALSE, <<>>)
    /\ cap_file = Absent

\* ------------------------------------------------------------------
\* C13: the CAP-event table has one row per window, by increasing
\* StartStep, DurationSteps = EndStep - StartStep >= 1, and the intervals
\* [StartStep, EndStep) of consecutive rows do not overlap.
\* ------------------------------------------------------------------
C13_CapTableRows ==
    [][(FirstFinalize /\ _cap_events' # <<>>) =>
        LET rows == cap_file'.rows
        IN  /\ Len(rows) = Len(_cap_events')
            /\ \A i \in 1..Len(rows) :
                  /\ rows[i].StartStep = _cap_events'[i][1]
                  /\ rows[i].EndStep = _cap_events'[i][2]
                  /\ rows[i].DurationSteps = rows[i].EndStep - rows[i].StartStep
                  /\ rows[i].DurationSteps >= 1
            /\ \A i \in 1..(Len(rows) - 1) :
                  /\ rows[i].StartStep < rows[i + 1].StartStep
                  /\ rows[i].EndStep <= rows[i + 1].StartStep]_vars

\* two windows in the table, the second one closed by finalize()
C13_Witness ==
    /\ _finalized
    /\ Len(_swap_logs) = 6
    /\ cap_file.rows = <<[StartStep |-> 0, EndStep |-> 2, DurationSteps |-> 2],
                         [StartStep |-> 3, EndStep |-> 6, DurationSteps |-> 3]>>

\* ------------------------------------------------------------------
\* C20: the row of day d has BaseFeePPM of the last observation of the day
\* and the sums of base, surge and total fee over exactly the steps in
\* [d*steps_per_day, min((d+1)*steps_per_day, N)); rows are in step order
\* and every observation contributes to exactly one row.
\* ------------------------------------------------------------------
\* sum of field f over the observations with step in [lo, hi)
RECURSIVE SumSteps(_, _, _, _)
SumSteps(logs, f, lo, hi) ==
    IF hi <= lo THEN 0 ELSE logs[hi][f] + SumSteps(logs, f, lo, hi - 1)

C20_RollupRowContents ==
    [][FirstFinalize =>
        LET N == Len(_swap_logs)
            rows == fee_metrics_file'.rows
        IN  /\ \A r \in 1..Len(rows) :
                LET lo == DayLo(r - 1)
                    hi == DayHi(r - 1, N)
                IN  /\ lo < hi
                    /\ rows[r].Date = r
                    /\ rows[r].BaseFeePPM = _swap_logs[hi].BaseFeePPM
                    /\ rows[r].TotalBaseFeeCollected = SumSteps(_swap_logs, "BaseFeePPM", lo, hi)
                    /\ rows[r].TotalSurgeFeeCollected = SumSteps(_swap_logs, "SurgeFeePPM", lo, hi)
                    /\ rows[r].TotalFeeCollected = SumSteps(_swap_logs, "TotalFeePPM", lo, hi)
            /\ \A k \in 0..(N - 1) :
                Cardinality({r \in 1..Len(rows) : DayLo(r - 1) <= k /\ k < DayHi(r - 1, N)}) = 1
            /\ SumField(rows, "TotalFeeCollected") = SumSteps(_swap_logs, "TotalFeePPM", 0, N)]_vars

\* days of three steps, five steps logged: the first day starts at base 4
\* and ends at base 3, the partial second day holds a step in CAP
C20_Witness ==
    /\ _finalized
    /\ _steps_per_day = 3
    /\ Len(_swap_logs) = 5
    /\ _swap_logs[1].BaseFeePPM = 4
    /\ Len(fee_metrics_file.rows) = 2
    /\ fee_metrics_file.rows[1].BaseFeePPM = 3
    /\ fee_metrics_file.rows[1].TotalBaseFeeCollected = 11
    /\ fee_metrics_file.rows[2].TotalSurgeFeeCollected = 5
    /\ fee_metrics_file.rows[2].TotalFeeCollected = 12

\* ------------------------------------------------------------------
\* C14: at every step of the synthetic run (base_fee0 = 0.30, 864 steps)
\* the recorded base_fee stays within [min_base_fee, max_base_fee].
\* ------------------------------------------------------------------
C14_BaseFeeWithinBounds ==
    /\ MinBaseFee <= sim_base_fee /\ sim_base_fee <= MaxBaseFee
    /\ \A i \in 1..Len(base_fees) : MinBaseFee <= base_fees[i] /\ base_fees[i] <= MaxBaseFee

\* an arbitrage step taken with the fee already at min_base_fee
C14_Witness ==
    /\ steps = FullSteps
    /\ Len(base_fees) >= 2
    /\ sim_trace[Len(sim_trace)] = "arb"
    /\ base_fees[Len(base_fees) - 1] = MinBaseFee
    /\ base_fees[Len(base_fees)] = MinBaseFee

\* ------------------------------------------------------------------
\* C15: for any perturbation sequence the run records at least one CAP
\* event in the registry, because at the shock step (steps // 2) the
\* relative price difference exceeds cap_threshold.
\* ------------------------------------------------------------------
C15_ShockTriggersCap ==
    /\ (step > steps \div 2) =>
          /\ sim_trace[(steps \div 2) + 1] = "cap"
          /\ \E i \in 1..Len(cap_events) : cap_events[i].time = (steps \div 2) * StepMinutes
    /\ (pc = "done") => Len(cap_events) >= 1

C15_Witness ==
    /\ pc = "done"
    /\ Len(cap_events) = 1
    /\ cap_events[1].time = (steps \div 2) * StepMinutes
    /\ cap_events[1].price_baseline > PriceOne

\* ------------------------------------------------------------------
\* C16: after the run every registry event has a time that is 5 times a
\* valid ledger index whose surge fee is > 0, and the ledger steps with
\* surge fee > 0 are exactly the steps with a registered event.
\* ------------------------------------------------------------------
C16_RegistryMatchesLedger ==
    (pc = "done") =>
        /\ \A i \in 1..Len(cap_events) :
              LET t == cap_events[i].time
              IN  /\ t % 5 = 0
                  /\ (t \div 5) \in 0..(Len(surge_fees) - 1)
                  /\ surge_fees[(t \div 5) + 1] > 0
        /\ {k \in 0..(Len(surge_fees) - 1) : surge_fees[k + 1] > 0}
             = {cap_events[i].time \div 5 : i \in 1..Len(cap_events)}

C16_Witness ==
    /\ pc = "done"
    /\ Len(surge_fees) = steps
    /\ cap_events # <<>>
    /\ surge_fees[(cap_events[1].time \div 5) + 1] = 2 * BaseFee0

\* ------------------------------------------------------------------
\* C17: at the end of the run, for any perturbation sequence, the final
\* relative price difference |dynamic - baseline| / baseline is strictly
\* below 1e-3.
\* ------------------------------------------------------------------
C17_FinalDiffBelowThreshold ==
    (pc = "done") =>
        Abs(last_price_dynamic - last_price_baseline) * 1000 < last_price_baseline

\* C17 as amended: the final relative price difference is at most 1e-3
C17_FinalDiffAtMostThreshold ==
    (pc = "done") =>
        Abs(last_price_dynamic - last_price_baseline) * 1000
            <= ArbitrageThreshold * last_price_baseline

\* a run that ends with the two prices apart by exactly the threshold
C17_Witness ==
    /\ pc = "done"
    /\ steps = FullSteps
    /\ last_price_dynamic # last_price_baseline
    /\ Abs(last_price_dynamic - last_price_baseline) * 1000 = last_price_baseline

\* ------------------------------------------------------------------
\* C18: in the run of 864 steps from base_fee0 = 0.30 the recorded total
\* fees sum to at least 1.1 times the flat baseline 0.30 * 864.
\* ------------------------------------------------------------------
\* sum of xs[lo..hi], by halves
RECURSIVE SumRange(_, _, _)
SumRange(xs, lo, hi) ==
    IF lo > hi THEN 0
    ELSE IF lo = hi THEN xs[lo]
    ELSE LET mid == (lo + hi) \div 2
         IN  SumRange(xs, lo, mid) + SumRange(xs, mid + 1, hi)

SumSeq(xs) == SumRange(xs, 1, Len(xs))

C18_FeesBeatFlatBaseline ==
    (pc = "done" /\ steps = FullSteps) =>
        10 * SumSeq(fees) >= 11 * BaseFee0 * Len(fees)

\* ------------------------------------------------------------------
\* C19: while no arbitrage has triggered, the base fee never increases
\* from one step to the next and stays on the side of min_base_fee, the
\* surge fee is 0 at every step and no CAP event is recorded.
\* ------------------------------------------------------------------
Calm == \A i \in 1..Len(sim_trace) : sim_trace[i] = "hold"

C24_UnboundLogFailsClean ==
    [][(_dfm = "None" /\ LogCall) =>
            /\ raised' # "none"
            /\ UNCHANGED <<_swap_logs, _step_counter, _last_in_cap, _cap_event_start,
                           _cap_events, stdout>>]_vars

\* a log() has just failed on an unbound tracker, and nothing was recorded
C24_Witness ==
    /\ _dfm = "None"
    /\ raised = "AttributeError"
    /\ _swap_logs = <<>>
    /\ stdout = <<>>
    /\ _step_counter = 0

\* ------------------------------------------------------------------
\* C25: record_swap(base_fee, applied_fee) never raises and records
\* surge_fee = max(applied_fee - base_fee, 0): never negative, equal to
\* applied_fee - base_fee when applied_fee >= base_fee, 0 when it is below.
\* ------------------------------------------------------------------
C25_SurgeIsClampedDifference ==
    [][\A b \in SwapBaseFees, a \in SwapAppliedFees :
            record_swap(b, a) =>
                /\ raised' = "none"
                /\ Len(surge_fees') = Len(surge_fees) + 1
                /\ LET recorded == surge_fees'[Len(surge_fees')]
                   IN  /\ recorded >= 0
                       /\ (a >= b => recorded = a - b)
                       /\ (a < b => recorded = 0)]_vars

\* one swap applied below its base fee, then one applied above it
C25_Witness ==
    /\ base_fees = <<2, 2>>
    /\ fees = <<1, 3>>
    /\ surge_fees = <<0, 1>>
    /\ raised = "none"

\* ------------------------------------------------------------------
\* C26: every record_cap_event(timestamp, details) appends exactly one entry
\* to the end of the annotated registry, without deduplication, and the time
\* field of the appended entry is the timestamp argument, whatever the
\* details mapping holds.
\* ------------------------------------------------------------------
C26_EntryTimeIsTimestamp ==
    [][\A t \in Timestamps, d \in DetailsArgs :
            record_cap_event(t, d) =>
                /\ Len(cap_events') = Len(cap_events) + 1
                /\ SubSeq(cap_events', 1, Len(cap_events)) = cap_events
                /\ cap_events'[Len(cap_events')].time = t]_vars

\* ------------------------------------------------------------------
\* C27: save_csv writes one row per record_swap call made so far, in call
\* order, with swap_index 0..n-1 and the base, surge and total fee of that
\* call; the three ledger lists have equal length; save_csv runs whatever the
\* finalized flag, changes no tracker state, and a second call with no
\* record_swap in between writes the same content.
\* ------------------------------------------------------------------
C27_SaveCsvRows ==
    /\ [](Len(base_fees) = Len(fees) /\ Len(surge_fees) = Len(fees))
    /\ [][SaveCsv =>
            LET written == [i \in 1..Len(fees) |->
                               [swap_index |-> i - 1, base_fee |-> base_fees[i],
                                surge_fee |-> surge_fees[i], total_fee |-> fees[i]]]
            IN  /\ csv_file'.exists
                /\ csv_file'.header
                /\ csv_file'.rows = written
                /\ raised' = "none"
                /\ UNCHANGED <<configVars, windowVars, _finalized, ledgerVars, stdout, fileVars>>
                /\ (csv_file.exists /\ csv_file.rows = written) => (csv_file' = csv_file)]_vars

\* a finalized tracker whose ledger of two swaps has been exported
C27_Witness ==
    /\ _finalized
    /\ Len(fees) = 2
    /\ csv_file.exists
    /\ Len(csv_file.rows) = 2
    /\ csv_file.rows[2].swap_index = 1
    /\ csv_file.rows[2].total_fee = fees[2]

\* a step of the synthetic run on which the relative price difference stays
\* within arbitrage_threshold, taken after at least one recorded step
QuietStep ==
    /\ SimStep
    /\ step > 0
    /\ ~Exceeds(baseline_price', dynamic_price, ArbitrageThreshold)

\* ------------------------------------------------------------------
\* C30: on every synthetic step without arbitrage the base fee and the surge
\* fee recorded for the step both equal the values recorded for the previous
\* step and the dynamic price is unchanged, also on the step right after a
\* CAP step, whose surge fee was positive.
\* ------------------------------------------------------------------
C30_QuietStepHoldsBoth ==
    [][QuietStep =>
            /\ base_fees'[step + 1] = base_fees[step]
            /\ surge_fees'[step + 1] = surge_fees[step]
            /\ dynamic_price' = dynamic_price]_vars

\* C30, amended: on every synthetic step without arbitrage the recorded base
\* fee equals the one of the previous step, the dynamic price is unchanged,
\* and the recorded surge fee is 0; it equals the previous surge fee except
\* on the step right after a CAP step.
C30_QuietStepHoldsBase ==
    [][QuietStep =>
            /\ base_fees'[step + 1] = base_fees[step]
            /\ dynamic_price' = dynamic_price
            /\ surge_fees'[step + 1] = 0
            /\ (sim_trace[step] # "cap" => surge_fees'[step + 1] = surge_fees[step])]_vars

\* the step after the shock was quiet: its surge fee is 0, the CAP step's was not
C30_Witness ==
    /\ step > (steps \div 2) + 1
    /\ sim_trace[(steps \div 2) + 1] = "cap"
    /\ sim_trace[(steps \div 2) + 2] = "hold"
    /\ surge_fees[(steps \div 2) + 1] > 0
    /\ surge_fees[(steps \div 2) + 2] = 0
    /\ base_fees[(steps \div 2) + 2] = base_fees[(steps \div 2) + 1]

\* the components of the last row of the observation history
LastObserved ==
    LET last == _swap_logs[Len(_swap_logs)]
    IN  <<last.BaseFeePPM, last.SurgeFeePPM, last.TotalFeePPM>>

\* ------------------------------------------------------------------
\* C22: snapshot() on a tracker on which no observation has been recorded
\* yet fails with an error instead of returning fee values.
\* ------------------------------------------------------------------
C22_SnapshotFailsBeforeFirstLog ==
    [][(Snapshot /\ _swap_logs = <<>>) => (raised' # "none" /\ ret' = ret)]_vars

\* C22, amended: snapshot() on a tracker with no recorded observation fails
\* only when no fee source is bound; with a bound source it returns
\* (base_fee, surge_fee, base_fee + surge_fee) of the source's current state.
C22_SnapshotSamplesBeforeFirstLog ==
    [][(Snapshot /\ _swap_logs = <<>>) =>
            IF _dfm = "None"
            THEN raised' = "AttributeError" /\ ret' = ret
            ELSE /\ raised' = "none"
                 /\ \E fs \in FeeStates : ret' = <<fs[1], fs[2], fs[1] + fs[2]>>]_vars

\* fee values were returned although nothing has been recorded
C22_Witness ==
    /\ _dfm = "contract"
    /\ _swap_logs = <<>>
    /\ ret = <<4, 5, 9>>
    /\ raised = "none"

\* ------------------------------------------------------------------
\* C23: once an observation has been recorded, snapshot() returns the
\* (base_fee, surge_fee, total_fee) of the most recently recorded
\* observation, whatever the fee source would return now, and neither
\* appends to the history nor advances the step counter.
\* ------------------------------------------------------------------
C23_SnapshotReturnsLastRecorded ==
    [][(Snapshot /\ _swap_logs # <<>> /\ _dfm # "None") =>
            /\ ret' = LastObserved
            /\ UNCHANGED <<_swap_logs, _step_counter>>]_vars

\* C23, amended: once an observation has been recorded, snapshot() returns
\* (base_fee, surge_fee, base_fee + surge_fee) of the state the fee source is
\* in at the call, which need not be the recorded one, and neither appends to
\* the history nor advances the step counter.
C23_SnapshotReturnsCurrent ==
    [][\A fs \in FeeStates :
            (snapshotCall(fs) /\ _swap_logs # <<>>) =>
                /\ ret' = <<fs[1], fs[2], fs[1] + fs[2]>>
                /\ UNCHANGED <<_swap_logs, _step_counter, windowVars, stdout>>]_vars

\* the value returned differs from the only observation recorded
C23_Witness ==
    /\ Len(_swap_logs) = 1
    /\ _step_counter = 1
    /\ LastObserved = <<3, 0, 3>>
    /\ ret = <<4, 5, 9>>

\* ------------------------------------------------------------------
\* C21: after finalize() of a tracker that never observed surge_fee > 0, the
\* CAP-event table in its results directory is absent or has no event rows,
\* also when an earlier tracker wrote a table with event rows there.
\* ------------------------------------------------------------------
C21_NoCapRowsWithoutSurge ==
    (_finalized /\ \A i \in 1..Len(_swap_logs) : _swap_logs[i].SurgeFeePPM = 0)
        => (~cap_file.exists \/ cap_file.rows = <<>>)

\* ------------------------------------------------------------------
\* C28: __del__ never propagates an error: on a tracker not yet finalized it
\* attempts finalize() and swallows a failure of the artifact write, on a
\* finalized tracker it writes nothing; an explicit finalize() surfaces a
\* write failure to its caller.
\* ------------------------------------------------------------------
C28_TeardownSwallows ==
    /\ [][Del => raised' = "none"]_vars
    /\ [][(Del /\ ~_finalized) =>
            /\ _cap_events' = ClosedEvents
            /\ _cap_event_start' = None
            /\ _finalized' =>
                 /\ fee_metrics_file' =
                        FeeMetricsFile(DailyRows(_swap_logs, ClosedEvents, _steps_per_day))
                 /\ cap_file' = CapFile(ClosedEvents, cap_file)]_vars
    /\ [][(Del /\ _finalized) => UNCHANGED <<windowVars, _finalized, fileVars, csv_file>>]_vars
    /\ [][(FinalizeIO /\ ~_finalized /\ ~_finalized') => raised' # "none"]_vars

\* a teardown whose write failed: nothing raised, nothing written, the open
\* window closed, the tracker still not finalized
C28_Witness ==
    /\ torn_down
    /\ ~_finalized
    /\ raised = "none"
    /\ _swap_logs # <<>>
    /\ _cap_events = <<<<0, 1>>>>
    /\ _last_in_cap
    /\ ~fee_metrics_file.exists

\* ------------------------------------------------------------------
\* C29: after a main() call has returned, fee_tracker is bound to the
\* populated tracker; every later main() call returns without running the
\* simulation again and leaves fee_tracker bound to the same tracker with an
\* unchanged ledger; the simulation body runs at most once, and the guard is
\* set only after a run that completed.
\* ------------------------------------------------------------------
C29_MainRunsOnce ==
    /\ []((main_calls >= 1 /\ pc = "idle") =>
            /\ _phase3_simulation_done
            /\ fee_tracker = sim_runs
            /\ Len(fees) = steps
            /\ csv_file.exists)
    /\ [](_phase3_simulation_done => (pc = "idle" /\ fee_tracker # None /\ Len(fees) = steps))
    /\ [](sim_runs <= 1)
    /\ [][(MainCall /\ _phase3_simulation_done) =>
            UNCHANGED <<fee_tracker, sim_runs, pc, step, ledgerVars, windowVars, csv_file,
                        last_price_dynamic, last_price_baseline>>]_vars

\* main() has been called three times; the one run is bound and holds a CAP
C29_Witness ==
    /\ main_calls = 3
    /\ pc = "idle"
    /\ _phase3_simulation_done
    /\ fee_tracker = 1
    /\ sim_runs = 1
    /\ Len(fees) = steps
    /\ cap_events # <<>>

C32_RecordingPathsIndependent ==
    /\ [][(RecordSwap \/ RecordCapEvent) =>
            UNCHANGED <<_step_counter, _swap_logs, _last_in_cap, _cap_event_start, _cap_events,
                        _finalized>>]_vars
    /\ [][LogApi => UNCHANGED <<base_fees, surge_fees, fees, cap_events>>]_vars
    /\ [][(~_finalized /\ Finalize /\ stdout = <<>>) =>
            /\ _swap_logs = <<>>
            /\ fee_metrics_file'.exists
            /\ fee_metrics_file'.rows = <<>>
            /\ ~fee_metrics_file'.header
            /\ ~cap_file'.exists
            /\ _cap_events' = <<>>]_vars

\* finalized after two swaps, one with a positive surge, and a registered CAP,
\* without a single log(): an empty rollup and no CAP-event table
C32_Witness ==
    /\ _finalized
    /\ stdout = <<>>
    /\ _step_counter = 0
    /\ surge_fees = <<0, 1>>
    /\ Len(cap_events) = 1
    /\ fee_metrics_file.exists
    /\ fee_metrics_file.rows = <<>>
    /\ ~cap_file.exists

\* a log() call that completed, with the marker it printed and what it did to
\* the windowed CapEvents
LogCompleted == LogCall /\ Len(stdout') = Len(stdout) + 1
PrintedMarker == stdout'[Len(stdout')].marker
WindowOpened == _cap_event_start = None /\ _cap_event_start' = _step_counter
WindowClosed ==
    /\ _cap_event_start # None
    /\ _cap_event_start' = None
    /\ _cap_events' = Append(_cap_events, <<_cap_event_start, _step_counter>>)

\* ------------------------------------------------------------------
\* C33: in every state reachable by any interleaving of log() and finalize()
\* calls, _last_in_cap is true exactly when a windowed CapEvent is open, so
\* every START marker coincides with the opening of a CapEvent at that step
\* and every END marker with the closing of one.
\* ------------------------------------------------------------------
C33_FlagMatchesOpenWindow ==
    /\ [](_last_in_cap <=> (_cap_event_start # None))
    /\ [][LogCompleted =>
            /\ (PrintedMarker = "START") <=> WindowOpened
            /\ (PrintedMarker = "END") <=> WindowClosed]_vars

\* C33, amended: in every state reachable by log() calls on a tracker on
\* which finalize() has not been called, _last_in_cap is true exactly when a
\* windowed CapEvent is open, and every START marker printed there coincides
\* with the opening of a CapEvent at that step and every END marker with the
\* closing of one.
C33_FlagMatchesOpenWindowUntilFinalize ==
    /\ [](~_finalized => (_last_in_cap <=> (_cap_event_start # None)))
    /\ [][(LogCompleted /\ ~_finalized) =>
            /\ (PrintedMarker = "START") <=> WindowOpened
            /\ (PrintedMarker = "END") <=> WindowClosed]_vars

\* not finalized: a window opened, closed and a second one opened, each with its marker
C33_Witness ==
    /\ ~_finalized
    /\ Len(stdout) = 3
    /\ [i \in 1..3 |-> stdout[i].marker] = <<"START", "END", "START">>
    /\ _cap_events = <<<<0, 1>>>>
    /\ _cap_event_start = 2
    /\ _last_in_cap

\* ------------------------------------------------------------------
\* C34: with perturbations within +/-0.2%, arbitrage_threshold 0.1% and
\* cap_threshold 0.5%, no CAP triggers on a step other than the scripted
\* shock step: the annotated registry ends with exactly one CAP event, at
\* time 5 * (steps // 2) = 2160, and the base fee rises on that step only.
\* ------------------------------------------------------------------
C34_OnlyTheShockCaps ==
    /\ [][SimStep =>
            /\ (Len(cap_events') > Len(cap_events)) <=> (step = steps \div 2)
            /\ (sim_base_fee' > sim_base_fee) <=> (step = steps \div 2)
            /\ (base_fees'[step + 1] > sim_base_fee) <=> (step = steps \div 2)
            /\ (surge_fees'[step + 1] > 0) <=> (step = steps \div 2)]_vars
    /\ []((pc = "done") =>
            /\ Len(cap_events) = 1
            /\ cap_events[1].time = 5 * (steps \div 2)
            /\ steps = FullSteps => cap_events[1].time = 2160)

\* the full run is over: one registered CAP at minute 2160, after a step that
\* moved the baseline by the full 0.2% from a gap of exactly 0.1%
C34_Witness ==
    /\ pc = "done"
    /\ steps = FullSteps
    /\ stream.bg = <<2, 1000>>
    /\ stream.at = 0
    /\ stream.blip = <<1, 999>>
    /\ SubSeq(sim_trace, 1, 2) = <<"hold", "arb">>
    /\ Len(cap_events) = 1
    /\ cap_events[1].time = 2160
    /\ base_fees[(steps \div 2) + 1] > base_fees[steps \div 2]

====
